---- MODULE Spec2Model ----
(***************************************************************************)
(* y-socket.io: one room of the YSocketIO server (src/server/y-socket-io.ts *)
(* and src/server/document.ts) together with the SocketIOProvider clients   *)
(* (src/client/provider.ts) that join it.                                   *)
(*                                                                          *)
(* A replica (Y.Doc) is the set of edits it holds: applying an update is    *)
(* set union, a state vector is the set of edits already held, and the      *)
(* diff against a state vector is set difference.  Every `await` of the     *)
(* server code is a point where other handlers may run; the awaited         *)
(* operation takes effect when the step that resumes the handler is taken.  *)
(***************************************************************************)
EXTENDS Integers, Sequences, FiniteSets, TLC

\* ------------------------------------------------------------------ bounds
NPeers == 2
\* a join constructs at most one Document
MaxDocs == 3

Peers == 1..NPeers
DocIds == 1..MaxDocs
Undefined == "undefined"
\* this._documents.get(name) of a room without a Document
NoDoc == 0

VARIABLES
  \* configuration
  persistence,      \* YSocketIO.persistence != null
  authenticate,     \* per peer, what configuration.authenticate answers to its
                    \* handshake; Undefined when none is configured
  debounceTime,     \* ProviderConfiguration.debounceTime per provider
  limits,           \* the providers that exist, and how many joins, local edits
                    \* and awareness changes are explored
  options,          \* the rest of the configuration: resyncInterval (ms), disableBc,
                    \* the events and callbacks whose application listener throws,
                    \* who constructs the Documents, and how many redundant
                    \* connect() / disconnect() calls are explored; the edits
                    \* whose LevelDB append fails, and how many undecodable
                    \* payloads peers send; the clock of the local state of the
                    \* awareness instances passed to the providers
  \* server
  documents,        \* the registry entry of the room: NoDoc or a Document
  docs,             \* the Document instances constructed so far
  ldb,              \* the updates LevelDB holds for the room
  nsp,              \* the sockets of the room's namespace (allSockets)
  conn,             \* per peer: its 'connection' handler
  closing,          \* per Document: 'disconnect' handlers suspended at an await
  emitted,          \* how often YSocketIO emitted each of its events; closedRun:
                    \* 'all-document-connections-closed' since a socket last joined;
                    \* and how often the server process had an 'unhandledRejection'
                    \* and an 'uncaughtException'
  \* transport
  c2s, s2c,         \* packets in flight, per connection, in order
  \* provider
  socket,           \* the state of this.socket
  sendBuffer,       \* packets emitted while the socket is not connected
  ydoc,             \* this.doc
  pendingUpdates, updateTimer,
  synced,
  awareness,        \* this.awareness
  status,           \* the last 'status' event emitted
  bcconnected,      \* this.bcconnected
  bc,               \* per provider, the broadcast channel messages of the other
                    \* tabs' providers that its subscription has yet to be given
  resyncInterval,   \* the setInterval timers of onSocketConnection still armed
  observed,         \* per provider, what an observer of it has seen: join attempts,
                    \* 'status: connected' and 'connection-error' events, the edits
                    \* the server held when its last join was admitted, its local
                    \* deltas and the sync-update payloads it emitted on its socket,
                    \* the last method called on it and how many calls were
                    \* redundant, how many messages it published on the broadcast
                    \* channel, the edits it made while not connected, the calls
                    \* of its onPending callback since the one before the last
                    \* onPending(false), the events of its last
                    \* onSocketDisconnection, how many broadcast channel
                    \* messages of its own it has processed, the edits it made
                    \* while another provider was on the channel with it, the
                    \* merged updates its debounce timer flushed
  joins             \* connection attempts made so far

cfgVars == <<persistence, authenticate, debounceTime, limits, options>>
srvVars == <<documents, docs, ldb, nsp, conn, closing, emitted>>
netVars == <<c2s, s2c>>
cliVars == <<socket, sendBuffer, ydoc, pendingUpdates, updateTimer, synced,
             awareness, status, observed, bcconnected, resyncInterval, bc>>
vars == <<cfgVars, srvVars, netVars, cliVars, joins>>

\* ------------------------------------------------------------ wire format
Msg(t, d, a) == [t |-> t, d |-> d, a |-> a]
Packet(t) == Msg(t, {}, {})

\* --------------------------------------------------- y-protocols awareness
\* An Awareness: per client id its meta entry (clock) and whether states holds
\* a (non-null) state for it.
NoEntry == [meta |-> FALSE, clock |-> 0, st |-> FALSE]
EmptyAwareness == [c \in Peers |-> NoEntry]

\* new Awareness(doc): the constructor calls setLocalState({})
NewAwareness(id) ==
  [c \in Peers |-> IF c = id THEN [meta |-> TRUE, clock |-> 0, st |-> TRUE] ELSE NoEntry]

\* ProviderConfiguration.awareness, "an existent awareness": its local state
\* has been set clock times since its construction
ExistentAwareness(id, clock) == [NewAwareness(id) EXCEPT ![id].clock = clock]

\* encodeAwarenessUpdate(awareness, clients): (client, clock, state | null)
encodeAwarenessUpdate(aw, clients) ==
  {[id |-> c, clock |-> aw[c].clock, st |-> aw[c].st] : c \in clients}

\* getStates().keys()
StateKeys(aw) == {c \in Peers : aw[c].st}

\* applyAwarenessUpdate: whether the entry e is taken by the store aw
AwAccepts(aw, e) ==
  LET currClock == IF aw[e.id].meta THEN aw[e.id].clock ELSE 0
  IN  \/ currClock < e.clock
      \/ (currClock = e.clock /\ ~e.st /\ aw[e.id].st)

\* applyAwarenessUpdate: the store after the update; self is awareness.clientID
\* (a remote null never removes a non-null local state: the clock is raised)
applyAwarenessUpdate(aw, update, self) ==
  [c \in Peers |->
     IF \E e \in update : e.id = c /\ AwAccepts(aw, e)
     THEN LET e == CHOOSE x \in update : x.id = c /\ AwAccepts(aw, x)
          IN  IF ~e.st /\ c = self /\ aw[c].st
              THEN [meta |-> TRUE, clock |-> e.clock + 1, st |-> TRUE]
              ELSE [meta |-> TRUE, clock |-> e.clock, st |-> e.st]
     ELSE aw[c]]

\* applyAwarenessUpdate: added.concat(updated, removed) of the 'update' event
AwChanged(aw, update) ==
  {e.id : e \in {x \in update : /\ AwAccepts(aw, x)
                                /\ (x.st \/ aw[x.id].meta)}}

\* removeAwarenessStates(awareness, clients, origin), clients not the local one
removeAwarenessStates(aw, clients) ==
  [c \in Peers |-> IF c \in clients /\ aw[c].st
                   THEN [aw[c] EXCEPT !.st = FALSE] ELSE aw[c]]

\* ----------------------------------------------------------- Document
\* new Document(name, namespace, localOnly, callbacks)     (document.ts:70-82)
NewDocument(localOnly, callbacks) ==
  [made |-> TRUE, content |-> {}, localOnly |-> localOnly, callbacks |-> callbacks,
   onUpdateDoc |-> TRUE, onUpdateAwareness |-> TRUE, storeUpdate |-> FALSE,
   destroyed |-> FALSE, aw |-> EmptyAwareness]

NoDocument ==
  [made |-> FALSE, content |-> {}, localOnly |-> Undefined, callbacks |-> Undefined,
   onUpdateDoc |-> FALSE, onUpdateAwareness |-> FALSE, storeUpdate |-> FALSE,
   destroyed |-> FALSE, aw |-> EmptyAwareness]

\* the callbacks object initDocument builds (y-socket-io.ts:154-161)
CallbacksObject == "callbacks"

\* JavaScript truthiness of an argument value
Truthy(x) == x \notin {Undefined, "false"}

\* initDocument's constructor call: the callbacks object is the THIRD argument,
\* so it lands in localOnly and the Document's callbacks stay undefined.
InitDocumentNew == NewDocument(CallbacksObject, Undefined)

\* a Document constructed as document.ts declares it, by an application that
\* passes the same callbacks object as the fourth argument
DirectDocumentNew == NewDocument(Undefined, CallbacksObject)

\* the next Document instance
FreshDoc == CHOOSE d \in DocIds : ~docs[d].made /\ \A e \in DocIds : e < d => docs[e].made

IdleConn == [pc |-> "idle", doc |-> NoDoc, persisted |-> {}, attached |-> FALSE]

\* ------------------------------------------------------------------- Init
\* YSocketIO.initDocument constructs the Documents; no listener throws; the
\* providers run without broadcast channel and without resync interval
DefaultOptions ==
  [resyncInterval |-> -1, disableBc |-> TRUE, throws |-> {},
   construct |-> "initDocument", calls |-> 0, appendFails |-> {}, corrupt |-> 0,
   awarenessClock |-> 0]

InitOptions(pers, auth, deb, lim, opt) ==
  /\ limits = lim
  /\ options = opt
  /\ persistence = pers
  /\ authenticate = auth
  /\ debounceTime = deb
  /\ documents = NoDoc
  /\ docs = [d \in DocIds |-> NoDocument]
  /\ ldb = {}
  /\ nsp = {}
  /\ conn = [p \in Peers |-> IdleConn]
  /\ closing = [d \in DocIds |-> [allSockets |-> 0, writeState |-> 0]]
  /\ emitted = [loaded |-> 0, closed |-> 0, closedRun |-> 0, destroy |-> 0,
                update |-> 0, awareness |-> 0, unhandledRejection |-> 0,
                uncaughtException |-> 0]
  /\ c2s = [p \in Peers |-> <<>>]
  /\ s2c = [p \in Peers |-> <<>>]
  /\ socket = [p \in Peers |-> "disconnected"]
  /\ sendBuffer = [p \in Peers |-> <<>>]
  /\ ydoc = [p \in Peers |-> {}]
  /\ pendingUpdates = [p \in Peers |-> <<>>]
  /\ updateTimer = [p \in Peers |-> FALSE]
  /\ synced = [p \in Peers |-> FALSE]
  /\ awareness = [p \in Peers |-> ExistentAwareness(p, opt.awarenessClock)]
  /\ status = [p \in Peers |-> "none"]
  /\ bcconnected = [p \in Peers |-> FALSE]
  /\ bc = [p \in Peers |-> <<>>]
  /\ resyncInterval = [p \in Peers |-> 0]
  /\ observed = [p \in Peers |-> [attempts |-> 0, connected |-> 0, connErr |-> 0,
                                   serverHad |-> {}, local |-> <<>>, tx |-> <<>>,
                                   call |-> "none", calls |-> 0, published |-> 0,
                                   offline |-> {}, onPending |-> <<>>, events |-> <<>>, own |-> 0,
                                   shared |-> {}, flushed |-> <<>>]]
  /\ joins = 0

InitWith(pers, auth, deb, lim) == InitOptions(pers, auth, deb, lim, DefaultOptions)

\* ------------------------------------------------------------- transport
\* namespace.emit / namespace.local.emit / socket.emit on the server: the packet
\* is queued for every target socket whose client has not closed it.
Deliver(q2c, targets, m) ==
  [q \in Peers |-> IF q \in targets /\ socket[q] # "disconnected"
                   THEN Append(q2c[q], m) ELSE q2c[q]]

\* ------------------------------------------------------- Document handlers
\* a callback called without try/catch: its exception leaves the caller
CallbackUncaught(d, name) ==
  IF docs[d].callbacks = Undefined THEN "none"
  ELSE IF name \in options.throws THEN "thrown" ELSE "returned"

\* if (this.callbacks?.<name> != null) try { callback } catch { console.warn }
\* (document.ts:91-97, 115-121)
CallbackOutcome(d, name) ==
  IF docs[d].callbacks = Undefined THEN "none"
  ELSE IF name \in options.throws THEN "caught" ELSE "returned"

\* Document.onUpdateDoc (document.ts:90-103): the callback, then the broadcast.
\* On one server namespace.local.emit and namespace.emit reach the same sockets.
onUpdateDoc(d, update, q2c) ==
  IF CallbackOutcome(d, "onUpdate") = "thrown" THEN q2c
  ELSE IF Truthy(docs[d].localOnly)
  THEN Deliver(q2c, nsp, Msg("sync-update", update, {}))
  ELSE Deliver(q2c, nsp, Msg("sync-update", update, {}))

\* callbacks?.onUpdate: (doc, update) => this.emit('document-update', ...)
onUpdateEmits(d) == IF docs[d].callbacks # Undefined THEN 1 ELSE 0

\* Document.onUpdateAwareness (document.ts:112-123)
onUpdateAwareness(d, aw, changedClients, q2c) ==
  IF CallbackOutcome(d, "onChangeAwareness") = "thrown" THEN q2c
  ELSE Deliver(q2c, nsp, Msg("awareness-update", {}, encodeAwarenessUpdate(aw, changedClients)))

onChangeAwarenessEmits(d) == IF docs[d].callbacks # Undefined THEN 1 ELSE 0

\* a payload that is not an encoded update: Y.applyUpdate throws while it
\* decodes it, before anything is integrated
Corrupt == {0}
Decodable(update) == update \cap Corrupt = {}

\* await ldb.storeUpdate(docName, update)          (y-socket-io.ts:184, 186)
storeUpdate(update) ==
  IF update \cap options.appendFails # {} THEN "rejected" ELSE "resolved"

\* ydoc.on('update', async (update) => await ldb.storeUpdate(docName, update))
\* (y-socket-io.ts:186): the listener returns a promise that nobody awaits, so
\* a rejected append is an unhandled rejection of the process
StoreUpdateListener(d, new) ==
  IF new # {} /\ docs[d].storeUpdate THEN storeUpdate(new) ELSE "none"

\* Y.applyUpdate(doc, update) on a server Document: the 'update' event fires
\* with the new part when something is new; its listeners are onUpdateDoc
\* (constructor) and the LevelDB append (bindState), in this order.  An
\* undecodable update throws out of the socket's listener, which has no
\* try/catch: an uncaught exception of the process.
ServerApplyUpdate(d, u) ==
  LET new == u \ docs[d].content IN
  IF ~Decodable(u)
  THEN /\ emitted' = [emitted EXCEPT !.uncaughtException = @ + 1]
       /\ UNCHANGED <<docs, s2c, ldb>>
  ELSE /\ docs' = [docs EXCEPT ![d].content = @ \cup u]
       /\ s2c' = IF new # {} /\ docs[d].onUpdateDoc THEN onUpdateDoc(d, new, s2c) ELSE s2c
       /\ emitted' = [emitted EXCEPT
             !.update = @ + (IF new # {} /\ docs[d].onUpdateDoc THEN onUpdateEmits(d) ELSE 0),
             !.unhandledRejection =
                @ + (IF StoreUpdateListener(d, new) = "rejected" THEN 1 ELSE 0)]
       /\ ldb' = IF StoreUpdateListener(d, new) = "resolved" THEN ldb \cup new ELSE ldb

\* ------------------------------------------------- connection middleware
\* a middleware that admits every handshake
AdmitAll(p) == "next"

\* nsp.use(async ...) (y-socket-io.ts:110-114): "next" admits, "error" rejects.
\* When authenticate throws or its promise rejects, the middleware's own
\* promise rejects before it has called next: "none"
AuthMiddleware(p) ==
  IF authenticate[p] = Undefined THEN "next"
  ELSE IF authenticate[p] = "true" THEN "next"
  ELSE IF authenticate[p] = "false" THEN "error" ELSE "none"

\* The middleware runs for a pending join.  Admitted: the socket joins the
\* namespace, its CONNECT packet is sent and the 'connection' handler starts,
\* up to its first await (this._documents.get).  With next never called, nothing
\* is sent to the client and its join stays pending; the rejected promise of
\* the middleware is nobody's.
Middleware(p) ==
  /\ conn[p].pc = "middleware"
  /\ CASE AuthMiddleware(p) = "next" ->
          /\ nsp' = nsp \cup {p}
          /\ conn' = [conn EXCEPT ![p].pc = "get"]
          /\ s2c' = [s2c EXCEPT ![p] = <<Packet("connect")>>]
          /\ emitted' = [emitted EXCEPT !.closedRun = 0]
       [] AuthMiddleware(p) = "error" ->
          /\ conn' = [conn EXCEPT ![p] = IdleConn]
          /\ s2c' = [s2c EXCEPT ![p] = <<Packet("connect_error")>>]
          /\ UNCHANGED <<nsp, emitted>>
       [] OTHER ->
          /\ conn' = [conn EXCEPT ![p].pc = "pending"]
          /\ emitted' = [emitted EXCEPT !.unhandledRejection = @ + 1]
          /\ UNCHANGED <<nsp, s2c>>
  /\ observed' = [observed EXCEPT ![p].serverHad = UNION {docs[d].content : d \in DocIds}]
  /\ UNCHANGED <<cfgVars, documents, docs, ldb, closing, c2s, joins,
                 socket, sendBuffer, ydoc, pendingUpdates, updateTimer, synced,
                 awareness, status, bcconnected, resyncInterval, bc>>

\* ------------------------------------------------------------ initDocument
\* await this._documents.get(name) ?? new Document(...); doc.gc = gc;
\* then this._documents.has(name) is awaited          (y-socket-io.ts:154-163)
InitDocumentGet(p) ==
  /\ conn[p].pc = "get"
  /\ IF documents # NoDoc
     THEN /\ conn' = [conn EXCEPT ![p].pc = "has", ![p].doc = documents]
          /\ UNCHANGED docs
     ELSE /\ docs' = [docs EXCEPT ![FreshDoc] =
                        IF options.construct = "initDocument"
                        THEN InitDocumentNew ELSE DirectDocumentNew]
          /\ conn' = [conn EXCEPT ![p].pc = "has", ![p].doc = FreshDoc]
  /\ UNCHANGED <<cfgVars, documents, ldb, nsp, closing, emitted, netVars, cliVars, joins>>

\* documentExists resolved (y-socket-io.ts:163-165): an existing document is
\* returned; otherwise bindState or set is called and awaited.
InitDocumentHas(p) ==
  /\ conn[p].pc = "has"
  /\ conn' = [conn EXCEPT ![p].pc =
                IF documents # NoDoc THEN "attach"
                ELSE IF persistence THEN "getYDoc" ELSE "set"]
  /\ UNCHANGED <<cfgVars, documents, docs, ldb, nsp, closing, emitted, netVars, cliVars, joins>>

\* bindState: persistedYdoc = await ldb.getYDoc(docName); newUpdates is encoded
\* and ldb.storeUpdate(docName, newUpdates) awaited     (y-socket-io.ts:181-184)
BindStateGetYDoc(p) ==
  /\ conn[p].pc = "getYDoc"
  /\ conn' = [conn EXCEPT ![p].pc = "storeUpdate", ![p].persisted = ldb]
  /\ UNCHANGED <<cfgVars, documents, docs, ldb, nsp, closing, emitted, netVars, cliVars, joins>>

\* bindState after the store: the persisted state is applied (the Document's
\* own 'update' listener broadcasts it), then the append hook is registered;
\* initDocument goes on to await this._documents.set   (y-socket-io.ts:184-186)
\* A rejected store rejects bindState, initDocument and the 'connection'
\* handler, whose promise nobody awaits.
BindStateApply(p) ==
  LET d == conn[p].doc
      new == conn[p].persisted \ docs[d].content IN
  /\ conn[p].pc = "storeUpdate"
  /\ IF storeUpdate(docs[d].content) = "rejected"
     THEN /\ emitted' = [emitted EXCEPT !.unhandledRejection = @ + 1]
          /\ conn' = [conn EXCEPT ![p].pc = "failed"]
          /\ UNCHANGED <<ldb, docs, s2c>>
     ELSE /\ ldb' = ldb \cup docs[d].content
          /\ docs' = [docs EXCEPT ![d].content = @ \cup conn[p].persisted,
                                  ![d].storeUpdate = TRUE]
          /\ s2c' = IF new # {} /\ docs[d].onUpdateDoc THEN onUpdateDoc(d, new, s2c) ELSE s2c
          /\ emitted' = IF new # {} /\ docs[d].onUpdateDoc
                        THEN [emitted EXCEPT !.update = @ + onUpdateEmits(d)] ELSE emitted
          /\ conn' = [conn EXCEPT ![p].pc = "set"]
  /\ UNCHANGED <<cfgVars, documents, nsp, closing, c2s, cliVars, joins>>

\* this.emit(name, ...) of lib0's Observable calls the listeners in place: a
\* listener that throws makes emit throw
EmitOutcome(name) == IF name \in options.throws THEN "thrown" ELSE "returned"

\* await this._documents.set(name, doc); this.emit('document-loaded', [doc]);
\* return doc                                           (y-socket-io.ts:166-169)
\* An exception of emit leaves initDocument and rejects the 'connection'
\* handler, which has attached nothing yet.
InitDocumentSet(p) ==
  /\ conn[p].pc = "set"
  /\ documents' = conn[p].doc
  /\ emitted' = [emitted EXCEPT !.loaded = @ + 1]
  /\ conn' = [conn EXCEPT ![p].pc =
                IF EmitOutcome("document-loaded") = "thrown" THEN "failed" ELSE "attach"]
  /\ UNCHANGED <<cfgVars, docs, ldb, nsp, closing, netVars, cliVars, joins>>

\* startSynchronization (y-socket-io.ts:271-276)
startSynchronization(p, d, q2c) ==
  Deliver(Deliver(q2c, {p}, Msg("sync-step-1", docs[d].content, {})), {p},
          Msg("awareness-update", {},
              encodeAwarenessUpdate(docs[d].aw, StateKeys(docs[d].aw))))

\* The 'connection' handler after await initDocument: the listeners are
\* attached and the synchronization started            (y-socket-io.ts:121-126).
\* On a socket that closed meanwhile they never fire.
ConnectionAttach(p) ==
  /\ conn[p].pc = "attach"
  /\ IF p \in nsp
     THEN /\ conn' = [conn EXCEPT ![p].pc = "done", ![p].attached = TRUE]
          /\ s2c' = startSynchronization(p, conn[p].doc, s2c)
     ELSE /\ conn' = [conn EXCEPT ![p] = IdleConn]
          /\ UNCHANGED s2c
  /\ UNCHANGED <<cfgVars, documents, docs, ldb, nsp, closing, emitted, c2s, cliVars, joins>>

\* ------------------------------------------------------- server: packets
\* A set S of the namespace's sockets closes: each leaves the namespace, and
\* the 'disconnect' listener of initSocketListeners (y-socket-io.ts:252-253),
\* where attached, starts and awaits socket.nsp.allSockets().
CloseNsp(S) == nsp \ S
CloseConn(S) ==
  [q \in Peers |-> IF q \in S /\ conn[q].pc \in {"done", "failed"} THEN IdleConn ELSE conn[q]]
CloseClosing(S) ==
  [d \in DocIds |->
     [closing[d] EXCEPT !.allSockets =
        @ + Cardinality({q \in S : conn[q].attached /\ conn[q].doc = d})]]
CloseC2s(S) == [q \in Peers |-> IF q \in S THEN <<>> ELSE c2s[q]]

\* socket.on('sync-step-1', ...)                     (y-socket-io.ts:212-214)
ServerSyncStep1(p, m) ==
  /\ s2c' = Deliver(s2c, {p}, Msg("ack", docs[conn[p].doc].content \ m.d, {}))
  /\ UNCHANGED <<docs, ldb, emitted, nsp, conn, closing>>

\* socket.on('sync-update', ...) and the acknowledgment of the server's own
\* sync-step-1: Y.applyUpdate(doc, update)      (y-socket-io.ts:216-218, 272-274)
ServerSyncUpdate(p, m) ==
  /\ ServerApplyUpdate(conn[p].doc, m.d)
  /\ UNCHANGED <<nsp, conn, closing>>

\* socket.on('awareness-update', ...)                (y-socket-io.ts:235-237)
ServerAwarenessUpdate(p, m) ==
  LET d == conn[p].doc
      changed == AwChanged(docs[d].aw, m.a)
      aw == applyAwarenessUpdate(docs[d].aw, m.a, 0) IN
  /\ docs' = [docs EXCEPT ![d].aw = aw]
  /\ s2c' = IF changed # {} /\ docs[d].onUpdateAwareness
            THEN onUpdateAwareness(d, aw, changed, s2c) ELSE s2c
  /\ emitted' = IF changed # {} /\ docs[d].onUpdateAwareness
                THEN [emitted EXCEPT !.awareness = @ + onChangeAwarenessEmits(d)]
                ELSE emitted
  /\ UNCHANGED <<ldb, nsp, conn, closing>>

\* The server takes the next packet of p's connection.  A packet that arrives
\* before the 'connection' handler attached its listeners has no listener.
ServerReceive(p) ==
  /\ p \in nsp
  /\ c2s[p] # <<>>
  /\ LET m == Head(c2s[p]) IN
     IF m.t = "disconnect"
     THEN /\ nsp' = CloseNsp({p})
          /\ conn' = CloseConn({p})
          /\ closing' = CloseClosing({p})
          /\ c2s' = CloseC2s({p})
          /\ UNCHANGED <<docs, ldb, emitted, s2c>>
     ELSE /\ c2s' = [c2s EXCEPT ![p] = Tail(@)]
          /\ IF ~conn[p].attached
             THEN UNCHANGED <<docs, ldb, emitted, s2c, nsp, conn, closing>>
             ELSE CASE m.t = "sync-step-1" -> ServerSyncStep1(p, m)
                    [] m.t \in {"sync-update", "ack"} -> ServerSyncUpdate(p, m)
                    [] OTHER -> ServerAwarenessUpdate(p, m)
  /\ UNCHANGED <<cfgVars, documents, cliVars, joins>>

\* -------------------------------------------------- 'disconnect' handler
\* allSockets() resolved: with no socket left 'all-document-connections-closed'
\* is emitted and, with persistence, writeState awaited (y-socket-io.ts:253-256);
\* an exception of emit ends the handler
DisconnectAllSockets(d) ==
  /\ closing[d].allSockets > 0
  /\ IF Cardinality(nsp) = 0
     THEN /\ emitted' = [emitted EXCEPT !.closed = @ + 1, !.closedRun = @ + 1]
          /\ closing' = [closing EXCEPT
                ![d].allSockets = @ - 1,
                ![d].writeState =
                   @ + (IF persistence /\ EmitOutcome("all-document-connections-closed") = "returned"
                        THEN 1 ELSE 0)]
     ELSE /\ closing' = [closing EXCEPT ![d].allSockets = @ - 1]
          /\ UNCHANGED emitted
  /\ UNCHANGED <<cfgVars, documents, docs, ldb, nsp, conn, netVars, cliVars, joins>>

\* Document.destroy (document.ts:129-141): onDestroy if there are callbacks
\* (y-socket-io.ts:157-160: registry delete, 'document-destroy'), the listeners
\* are removed, the namespace's sockets disconnected, the Y.Doc destroyed (its
\* remaining observers, the LevelDB append among them, are dropped).
DocumentDestroy(d) ==
  /\ documents' = IF docs[d].callbacks # Undefined THEN NoDoc ELSE documents
  /\ emitted' = IF docs[d].callbacks # Undefined
                THEN [emitted EXCEPT !.destroy = @ + 1] ELSE emitted
  /\ docs' = [docs EXCEPT ![d].onUpdateAwareness = FALSE, ![d].onUpdateDoc = FALSE,
                          ![d].storeUpdate = FALSE, ![d].destroyed = TRUE]
  /\ nsp' = CloseNsp(nsp)
  /\ conn' = CloseConn(nsp)
  /\ c2s' = CloseC2s(nsp)
  /\ s2c' = Deliver(s2c, nsp, Packet("disconnect"))

\* writeState resolved: await doc.destroy()          (y-socket-io.ts:256-257)
DisconnectDestroy(d) ==
  /\ closing[d].writeState > 0
  /\ DocumentDestroy(d)
  /\ closing' = [e \in DocIds |->
                   IF e = d THEN [CloseClosing(nsp)[e] EXCEPT !.writeState = @ - 1]
                   ELSE CloseClosing(nsp)[e]]
  /\ UNCHANGED <<cfgVars, ldb, cliVars, joins>>

\* ---------------------------------------------------------------- provider
\* this.socket.emit(...): sent when connected, else kept in the send buffer
SocketEmit(p, out) ==
  /\ c2s' = [c2s EXCEPT ![p] = IF socket[p] = "connected" THEN @ \o out ELSE @]
  /\ sendBuffer' = [sendBuffer EXCEPT ![p] = IF socket[p] = "connected" THEN @ ELSE @ \o out]

\* Y.mergeUpdates(this.pendingUpdates)
RECURSIVE mergeUpdates(_)
mergeUpdates(us) == IF us = <<>> THEN {} ELSE Head(us) \cup mergeUpdates(Tail(us))

\* onUpdateDocInner (provider.ts:377-385): the sync-update packet
onUpdateDocInner(update) == <<Msg("sync-update", update, {})>>

\* a buffer that is never started afresh
onUpdateDocPendingKept(p, update) == Append(pendingUpdates[p], update)

\* onUpdateDoc (provider.ts:395-415) for a local change: what is transmitted
\* at once, the buffer afterwards
onUpdateDocSends(p, update) ==
  IF debounceTime[p] # Undefined THEN onUpdateDocInner(update) ELSE <<>>
onUpdateDocPending(p, update) ==
  IF updateTimer[p] THEN Append(pendingUpdates[p], update) ELSE <<update>>

\* an 'update' listener that handles the provider's own applications too
onUpdateDocHandlesAll(p, origin) == FALSE

\* onUpdateDoc (provider.ts:396-398): `if (origin === this) return`
onUpdateDocReturns(p, origin) == origin = p

\* Y.applyUpdate(this.doc, update, this) (provider.ts:313, 320, 424, 502, 506):
\* the document's 'update' event fires with what is new and the provider as
\* origin, and onUpdateDoc, while registered, returns before it buffers
\* anything or arms the timer
RemoteHandled(p, update) ==
  update \ ydoc[p] # {} /\ observed[p].call # "destroy" /\ ~onUpdateDocReturns(p, p)
applyUpdate(p, update) ==
  /\ ydoc' = [ydoc EXCEPT ![p] = @ \cup update]
  /\ pendingUpdates' = [pendingUpdates EXCEPT ![p] =
        IF RemoteHandled(p, update) THEN onUpdateDocPending(p, update \ ydoc[p]) ELSE @]
  /\ updateTimer' = [updateTimer EXCEPT ![p] = IF RemoteHandled(p, update) THEN TRUE ELSE @]

\* this.onPending?.(pending) (provider.ts:403, 412), as a registered callback
\* sees it: the calls of the current window, a window ending with false
onPending(calls, pending) ==
  IF calls # <<>> /\ ~calls[Len(calls)] THEN <<pending>> ELSE Append(calls, pending)

\* the edits made so far; a local edit is the next one
Made == UNION {ydoc[p] : p \in Peers}

\* destroy() has been called on the provider: no method is called afterwards
Destroyed(p) == observed[p].call = "destroy"

\* `if (this.bcconnected) bc.publish(...)` for n messages
BcPublished(p, n) == IF bcconnected[p] THEN n ELSE 0

\* the origin lib0 gives a subscriber for a message of another tab
\* ('broadcastchannel'); a provider's own publications reach its own
\* subscription, in place, with the provider itself as origin
BroadcastChannelOrigin == 0

\* a subscription that handles every message, its own included
BcAcceptsAll(q, origin) == TRUE

\* onBroadcastChannelMessage (provider.ts:492): `origin !== this`
BcAccepts(q, origin) == origin # q

\* bc.publish(channel, message, this) for the messages msgs: what the other
\* tabs' subscribed providers will be given
BcDeliver(queues, p, msgs) ==
  [q \in Peers |-> IF q # p /\ bcconnected[q] THEN queues[q] \o msgs ELSE queues[q]]

\* bc.publish: the publisher's own subscription is called with each message;
\* how many of them it handles
BcOwn(p, subscribed, msgs) ==
  IF subscribed /\ BcAccepts(p, p) THEN Len(msgs) ELSE 0

\* `if (this.bcconnected) bc.publish(...)` of onUpdateDocInner and
\* awarenessUpdate (provider.ts:379-384, 437-442) for the packets out
BcPublish(p, out) ==
  /\ bc' = BcDeliver(bc, p, IF bcconnected[p] THEN out ELSE <<>>)

\* A local change of the provider's document fires onUpdateDoc with a foreign
\* origin; the timer is (re)armed.
Edit(p) ==
  LET e == Cardinality(Made) + 1
      out == onUpdateDocSends(p, {e}) IN
  /\ p \in limits.peers
  /\ ~Destroyed(p)
  /\ Cardinality(Made) < limits.edits
  /\ ydoc' = [ydoc EXCEPT ![p] = @ \cup {e}]
  /\ SocketEmit(p, out)
  /\ BcPublish(p, out)
  /\ pendingUpdates' = [pendingUpdates EXCEPT ![p] = onUpdateDocPending(p, {e})]
  /\ updateTimer' = [updateTimer EXCEPT ![p] = TRUE]
  /\ observed' = [observed EXCEPT ![p].tx = @ \o [i \in 1..Len(out) |-> out[i].d],
                                  ![p].local = Append(@, {e}),
                                  ![p].published = @ + BcPublished(p, Len(out)),
                                  ![p].own = @ + BcOwn(p, bcconnected[p], out),
                                  ![p].offline = IF socket[p] = "connected" THEN @ ELSE @ \cup {e},
                                  ![p].shared = IF bcconnected[p] /\ \E q \in Peers \ {p} : bcconnected[q]
                                                THEN @ \cup {e} ELSE @,
                                  ![p].onPending = IF updateTimer[p] THEN onPending(@, TRUE) ELSE @]
  /\ UNCHANGED <<cfgVars, srvVars, s2c, socket, synced, awareness, status,
                 bcconnected, resyncInterval, joins>>

\* the setTimeout callback of onUpdateDoc (provider.ts:409-414)
UpdateTimerFires(p) ==
  LET out == onUpdateDocInner(mergeUpdates(pendingUpdates[p])) IN
  /\ updateTimer[p]
  /\ SocketEmit(p, out)
  /\ BcPublish(p, out)
  /\ updateTimer' = [updateTimer EXCEPT ![p] = FALSE]
  /\ observed' = [observed EXCEPT ![p].tx = @ \o [i \in 1..Len(out) |-> out[i].d],
                                  ![p].published = @ + BcPublished(p, Len(out)),
                                  ![p].own = @ + BcOwn(p, bcconnected[p], out),
                                  ![p].onPending = onPending(@, FALSE),
                                  ![p].flushed = Append(@, out[1].d)]
  /\ UNCHANGED <<cfgVars, srvVars, s2c, socket, ydoc, pendingUpdates, synced,
                 awareness, status, bcconnected, resyncInterval, joins>>

\* awarenessUpdate (provider.ts:434-443): the packet for the changed clients
awarenessUpdate(aw, changedClients) ==
  <<Msg("awareness-update", {}, encodeAwarenessUpdate(aw, changedClients))>>

\* awareness.setLocalState(state) with a non-null state, by the application
SetLocalState(p) ==
  LET aw == [awareness[p] EXCEPT ![p] = [meta |-> TRUE, clock |-> @.clock + 1, st |-> TRUE]] IN
  /\ p \in limits.peers
  /\ ~Destroyed(p)
  /\ awareness[p][p].clock < limits.clock
  /\ awareness' = [awareness EXCEPT ![p] = aw]
  /\ SocketEmit(p, awarenessUpdate(aw, {p}))
  /\ BcPublish(p, awarenessUpdate(aw, {p}))
  /\ observed' = [observed EXCEPT
        ![p].published = @ + BcPublished(p, 1),
        ![p].own = @ + BcOwn(p, bcconnected[p], awarenessUpdate(aw, {p}))]
  /\ UNCHANGED <<cfgVars, srvVars, s2c, socket, ydoc, pendingUpdates, updateTimer,
                 synced, status, bcconnected, resyncInterval, joins>>

\* a join of the channel that asks nobody for what it lacks
connectBcNoSyncStep1(p) ==
  <<Msg("sync-step-2", ydoc[p], {}), Msg("query-awareness", {}, {}),
    Msg("awareness-update", {}, encodeAwarenessUpdate(awareness[p], {p}))>>

\* connectBc (provider.ts:459-468): four messages are published
connectBcPublishes == 4
connectBc(p) ==
  <<Msg("sync-step-1", ydoc[p], {}), Msg("sync-step-2", ydoc[p], {}),
    Msg("query-awareness", {}, {}),
    Msg("awareness-update", {}, encodeAwarenessUpdate(awareness[p], {p}))>>

\* `if (!this.disableBc) this.connectBc()` (provider.ts:295): the provider is
\* subscribed when it publishes
ConnectBc(p) ==
  /\ bcconnected' = [bcconnected EXCEPT ![p] = IF options.disableBc THEN @ ELSE TRUE]
  /\ bc' = IF options.disableBc THEN bc ELSE BcDeliver(bc, p, connectBc(p))
ConnectBcOwn(p) == IF options.disableBc THEN 0 ELSE BcOwn(p, TRUE, connectBc(p))

\* disconnectBc (provider.ts:474-483): the removal of the local state is
\* published, then the subscription ended
disconnectBc(p) ==
  <<Msg("awareness-update", {},
        {[id |-> p, clock |-> awareness[p][p].clock, st |-> FALSE]})>>
DisconnectBc(p) ==
  /\ bcconnected' = [bcconnected EXCEPT ![p] = FALSE]
  /\ bc' = [BcDeliver(bc, p, disconnectBc(p)) EXCEPT ![p] = <<>>]

\* connect() (provider.ts:291-298) on a closed socket: a join is requested.
\* The previous connection of the provider has been closed by the server.
Connect(p) ==
  /\ p \in limits.peers
  /\ ~Destroyed(p)
  /\ socket[p] = "disconnected"
  /\ p \notin nsp /\ conn[p].pc = "idle" /\ c2s[p] = <<>>
  /\ joins < limits.joins /\ joins < MaxDocs
  /\ joins' = joins + 1
  /\ status' = [status EXCEPT ![p] = "connecting"]
  /\ socket' = [socket EXCEPT ![p] = "connecting"]
  /\ synced' = [synced EXCEPT ![p] = FALSE]
  /\ conn' = [conn EXCEPT ![p].pc = "middleware"]
  /\ s2c' = [s2c EXCEPT ![p] = <<>>]
  /\ ConnectBc(p)
  /\ observed' = [observed EXCEPT
        ![p].attempts = @ + 1,
        ![p].call = "connect",
        ![p].published = @ + (IF options.disableBc THEN 0 ELSE connectBcPublishes),
        ![p].own = @ + ConnectBcOwn(p)]
  /\ UNCHANGED <<cfgVars, documents, docs, ldb, nsp, closing, emitted, c2s,
                 sendBuffer, ydoc, pendingUpdates, updateTimer, awareness, resyncInterval>>

\* connect() without its test of this.socket.connected
ConnectUnguarded(p) ==
  /\ p \in limits.peers
  /\ ~Destroyed(p)
  /\ socket[p] \in {"connecting", "connected"}
  /\ observed[p].calls < options.calls
  /\ status' = [status EXCEPT ![p] = "connecting"]
  /\ synced' = [synced EXCEPT ![p] = FALSE]
  /\ ConnectBc(p)
  /\ observed' = [observed EXCEPT
        ![p].call = "connect", ![p].calls = @ + 1,
        ![p].published = @ + (IF options.disableBc THEN 0 ELSE connectBcPublishes),
        ![p].own = @ + ConnectBcOwn(p)]
  /\ UNCHANGED <<cfgVars, srvVars, netVars, socket, sendBuffer, ydoc, pendingUpdates,
                 updateTimer, awareness, resyncInterval, joins>>

\* connect() on a socket that is connecting or connected: socket.connect()
\* opens nothing new
ConnectAgain(p) ==
  /\ p \in limits.peers
  /\ ~Destroyed(p)
  /\ socket[p] \in {"connecting", "connected"}
  /\ observed[p].calls < options.calls
  /\ IF socket[p] = "connected"
     THEN /\ observed' = [observed EXCEPT ![p].call = "connect", ![p].calls = @ + 1]
          /\ UNCHANGED <<status, synced, bcconnected, bc>>
     ELSE /\ status' = [status EXCEPT ![p] = "connecting"]
          /\ synced' = [synced EXCEPT ![p] = FALSE]
          /\ ConnectBc(p)
          /\ observed' = [observed EXCEPT
                ![p].call = "connect", ![p].calls = @ + 1,
                ![p].published = @ + (IF options.disableBc THEN 0 ELSE connectBcPublishes),
                ![p].own = @ + ConnectBcOwn(p)]
  /\ UNCHANGED <<cfgVars, srvVars, netVars, socket, sendBuffer, ydoc, pendingUpdates,
                 updateTimer, awareness, resyncInterval, joins>>

\* onSocketConnection (provider.ts:310-324): the packets emitted
onSocketConnection(p) ==
  <<Msg("sync-step-1", ydoc[p], {})>> \o
  (IF awareness[p][p].st THEN awarenessUpdate(awareness[p], {p}) ELSE <<>>)

\* a disconnection that leaves the synced flag as it is
onSocketDisconnectionKeepsSynced(state) == state

\* onSocketDisconnection (provider.ts:347): this.synced = false
onSocketDisconnectionSynced(state) == FALSE

\* onSocketDisconnection (provider.ts:345-350): the awareness afterwards and
\* what its 'update' event makes awarenessUpdate emit, while that listener is
\* registered
DisconnectionRemovedAll(p) == StateKeys(awareness[p])
DisconnectionRemoved(p) == StateKeys(awareness[p]) \ {p}
\* the events fired, in order: 'connection-close', the synced setter's 'synced'
\* and 'sync' if the flag changes, the awareness store's 'update' if something
\* is removed, 'status'
onSocketDisconnectionEvents(p) ==
  <<"connection-close">>
  \o (IF synced[p] THEN <<"synced", "sync">> ELSE <<>>)
  \o (IF DisconnectionRemoved(p) # {} THEN <<"awareness">> ELSE <<>>)
  \o <<"status">>
onSocketDisconnection(p) == removeAwarenessStates(awareness[p], DisconnectionRemoved(p))
DisconnectionEmits(p) ==
  IF DisconnectionRemoved(p) # {} /\ ~Destroyed(p)
  THEN awarenessUpdate(onSocketDisconnection(p), DisconnectionRemoved(p)) ELSE <<>>

\* disconnect() (provider.ts:330-335) on a connected socket: disconnectBc
\* publishes and leaves the channel, the DISCONNECT packet follows what was
\* sent, and the socket's 'disconnect' event fires.
Disconnect(p) ==
  /\ socket[p] = "connected"
  /\ ~Destroyed(p)
  /\ socket' = [socket EXCEPT ![p] = "disconnected"]
  /\ c2s' = [c2s EXCEPT ![p] = Append(@, Packet("disconnect"))]
  /\ s2c' = [s2c EXCEPT ![p] = <<>>]
  /\ synced' = [synced EXCEPT ![p] = onSocketDisconnectionSynced(@)]
  /\ awareness' = [awareness EXCEPT ![p] = onSocketDisconnection(p)]
  /\ sendBuffer' = [sendBuffer EXCEPT ![p] = @ \o DisconnectionEmits(p)]
  /\ status' = [status EXCEPT ![p] = "disconnected"]
  /\ DisconnectBc(p)
  /\ observed' = [observed EXCEPT ![p].call = "disconnect", ![p].published = @ + 1,
                                  ![p].own = @ + BcOwn(p, bcconnected[p], disconnectBc(p)),
                                  ![p].events = onSocketDisconnectionEvents(p)]
  /\ UNCHANGED <<cfgVars, srvVars, ydoc, pendingUpdates, updateTimer, resyncInterval, joins>>

\* disconnect() on a socket that is not connected: `if (this.socket.connected)`
DisconnectIdle(p) ==
  /\ p \in limits.peers
  /\ ~Destroyed(p)
  /\ socket[p] # "connected"
  /\ observed[p].calls < options.calls
  /\ observed' = [observed EXCEPT ![p].call = "disconnect", ![p].calls = @ + 1]
  /\ UNCHANGED <<cfgVars, srvVars, netVars, socket, sendBuffer, ydoc, pendingUpdates,
                 updateTimer, synced, awareness, status, bcconnected, resyncInterval, bc,
                 joins>>

\* awareness.destroy(): setLocalState(null), with the provider's listener removed
AwarenessDestroy(aw, id) ==
  [aw EXCEPT ![id] = IF @.st THEN [meta |-> TRUE, clock |-> @.clock + 1, st |-> FALSE] ELSE @]

\* destroy() (provider.ts:366-375): the last resync interval is cleared,
\* disconnect() is called, the awareness and document listeners are removed and
\* the awareness destroyed.  The socket's listeners and the debounce timer stay.
Destroy(p) ==
  LET wasConnected == socket[p] = "connected" IN
  /\ p \in limits.peers
  /\ ~Destroyed(p)
  /\ resyncInterval' = [resyncInterval EXCEPT ![p] = IF @ > 0 THEN @ - 1 ELSE @]
  /\ socket' = [socket EXCEPT ![p] = IF wasConnected THEN "disconnected" ELSE @]
  /\ c2s' = [c2s EXCEPT ![p] = IF wasConnected THEN Append(@, Packet("disconnect")) ELSE @]
  /\ s2c' = [s2c EXCEPT ![p] = IF wasConnected THEN <<>> ELSE @]
  /\ synced' = [synced EXCEPT ![p] = IF wasConnected THEN onSocketDisconnectionSynced(@) ELSE @]
  /\ awareness' = [awareness EXCEPT ![p] =
                     AwarenessDestroy(IF wasConnected THEN onSocketDisconnection(p) ELSE @, p)]
  /\ sendBuffer' = [sendBuffer EXCEPT ![p] =
                      IF wasConnected THEN @ \o DisconnectionEmits(p) ELSE @]
  /\ status' = [status EXCEPT ![p] = IF wasConnected THEN "disconnected" ELSE @]
  /\ IF wasConnected THEN DisconnectBc(p) ELSE UNCHANGED <<bcconnected, bc>>
  /\ observed' = [observed EXCEPT ![p].call = "destroy",
                                  ![p].published = @ + (IF wasConnected THEN 1 ELSE 0),
                                  ![p].own = @ + (IF wasConnected
                                                  THEN BcOwn(p, bcconnected[p], disconnectBc(p))
                                                  ELSE 0),
                                  ![p].events = IF wasConnected
                                                THEN onSocketDisconnectionEvents(p) ELSE @]
  /\ UNCHANGED <<cfgVars, srvVars, ydoc, pendingUpdates, updateTimer, joins>>

\* The connection is lost (transport close, ping timeout): the server closes
\* its socket, the provider's socket fires 'disconnect' and its manager will
\* reconnect by itself.
ConnectionLoss(p) ==
  /\ socket[p] = "connected" /\ p \in nsp
  /\ joins < limits.joins /\ joins < MaxDocs
  /\ nsp' = CloseNsp({p})
  /\ conn' = CloseConn({p})
  /\ closing' = CloseClosing({p})
  /\ c2s' = CloseC2s({p})
  /\ s2c' = [s2c EXCEPT ![p] = <<>>]
  /\ socket' = [socket EXCEPT ![p] = "lost"]
  /\ synced' = [synced EXCEPT ![p] = onSocketDisconnectionSynced(@)]
  /\ awareness' = [awareness EXCEPT ![p] = onSocketDisconnection(p)]
  /\ sendBuffer' = [sendBuffer EXCEPT ![p] = @ \o DisconnectionEmits(p)]
  /\ status' = [status EXCEPT ![p] = "disconnected"]
  /\ BcPublish(p, DisconnectionEmits(p))
  /\ observed' = [observed EXCEPT
        ![p].published = @ + BcPublished(p, Len(DisconnectionEmits(p))),
        ![p].own = @ + BcOwn(p, bcconnected[p], DisconnectionEmits(p)),
        ![p].events = onSocketDisconnectionEvents(p)]
  /\ UNCHANGED <<cfgVars, documents, docs, ldb, emitted, ydoc, pendingUpdates,
                 updateTimer, bcconnected, resyncInterval, joins>>

\* the manager reconnects a lost socket: a new handshake, without connect()
Reconnect(p) ==
  /\ socket[p] = "lost"
  /\ p \notin nsp /\ conn[p].pc = "idle"
  /\ joins < limits.joins /\ joins < MaxDocs
  /\ joins' = joins + 1
  /\ socket' = [socket EXCEPT ![p] = "connecting"]
  /\ conn' = [conn EXCEPT ![p].pc = "middleware"]
  /\ s2c' = [s2c EXCEPT ![p] = <<>>]
  /\ UNCHANGED <<cfgVars, documents, docs, ldb, nsp, closing, emitted, c2s,
                 sendBuffer, ydoc, pendingUpdates, updateTimer, synced, awareness,
                 status, observed, bcconnected, resyncInterval, bc>>

\* a tick that emits whatever the state of the socket
ResyncTickUnguarded(p) ==
  /\ resyncInterval[p] > 0
  /\ \A i \in DOMAIN c2s[p] : c2s[p][i].t # "sync-step-1"
  /\ \A i \in DOMAIN sendBuffer[p] : sendBuffer[p][i].t # "sync-step-1"
  /\ \A i \in DOMAIN s2c[p] : s2c[p][i].t # "ack"
  /\ SocketEmit(p, <<Msg("sync-step-1", ydoc[p], {})>>)
  /\ UNCHANGED <<cfgVars, srvVars, s2c, socket, ydoc, pendingUpdates, updateTimer,
                 synced, awareness, status, observed, bcconnected, resyncInterval, bc,
                 joins>>

\* a tick of a resync interval (provider.ts:317-323); the provider has one
\* sync-step-1 outstanding at a time
ResyncTick(p) ==
  /\ resyncInterval[p] > 0
  /\ socket[p] = "connected"
  /\ \A i \in DOMAIN c2s[p] : c2s[p][i].t # "sync-step-1"
  /\ \A i \in DOMAIN s2c[p] : s2c[p][i].t # "ack"
  /\ c2s' = [c2s EXCEPT ![p] = Append(@, Msg("sync-step-1", ydoc[p], {}))]
  /\ UNCHANGED <<cfgVars, srvVars, s2c, cliVars, joins>>

\* A peer's socket emits a 'sync-update' whose payload is not an encoded
\* update (a faulty or hostile client), one at a time.
SendCorrupt(p) ==
  /\ p \in limits.peers
  /\ socket[p] = "connected"
  /\ emitted.uncaughtException < options.corrupt
  /\ \A q \in Peers : \A i \in DOMAIN c2s[q] : Decodable(c2s[q][i].d)
  /\ c2s' = [c2s EXCEPT ![p] = Append(@, Msg("sync-update", Corrupt, {}))]
  /\ UNCHANGED <<cfgVars, srvVars, s2c, cliVars, joins>>

\* The provider's socket takes the next packet from the server.
ClientReceive(p) ==
  /\ s2c[p] # <<>>
  /\ socket[p] # "disconnected"
  /\ LET m == Head(s2c[p]) IN
     CASE m.t = "connect" ->
            \* the send buffer is flushed, then 'connect' fires
            /\ socket' = [socket EXCEPT ![p] = "connected"]
            /\ status' = [status EXCEPT ![p] = "connected"]
            /\ observed' = [observed EXCEPT ![p].connected = @ + 1]
            /\ c2s' = [c2s EXCEPT ![p] = @ \o sendBuffer[p] \o onSocketConnection(p)]
            /\ sendBuffer' = [sendBuffer EXCEPT ![p] = <<>>]
            /\ s2c' = [s2c EXCEPT ![p] = Tail(@)]
            /\ resyncInterval' = [resyncInterval EXCEPT ![p] =
                                    IF options.resyncInterval > 0 THEN @ + 1 ELSE @]
            /\ UNCHANGED <<ydoc, synced, awareness, bc, pendingUpdates, updateTimer>>
       [] m.t = "connect_error" ->
            \* onSocketConnectionError (provider.ts:358-360)
            /\ socket' = [socket EXCEPT ![p] = "disconnected"]
            /\ observed' = [observed EXCEPT ![p].connErr = @ + 1]
            /\ s2c' = [s2c EXCEPT ![p] = Tail(@)]
            /\ UNCHANGED <<status, c2s, sendBuffer, ydoc, synced, awareness, resyncInterval,
                           bc, pendingUpdates, updateTimer>>
       [] m.t = "disconnect" ->
            \* the server closed the socket
            /\ socket' = [socket EXCEPT ![p] = "disconnected"]
            /\ synced' = [synced EXCEPT ![p] = onSocketDisconnectionSynced(@)]
            /\ awareness' = [awareness EXCEPT ![p] = onSocketDisconnection(p)]
            /\ sendBuffer' = [sendBuffer EXCEPT ![p] = @ \o DisconnectionEmits(p)]
            /\ status' = [status EXCEPT ![p] = "disconnected"]
            /\ s2c' = [s2c EXCEPT ![p] = <<>>]
            \* what was sent on the closed connection is lost
            /\ c2s' = [c2s EXCEPT ![p] = <<>>]
            /\ BcPublish(p, DisconnectionEmits(p))
            /\ observed' = [observed EXCEPT
                  ![p].published = @ + BcPublished(p, Len(DisconnectionEmits(p))),
                  ![p].own = @ + BcOwn(p, bcconnected[p], DisconnectionEmits(p)),
                  ![p].events = onSocketDisconnectionEvents(p)]
            /\ UNCHANGED <<ydoc, resyncInterval, pendingUpdates, updateTimer>>
       [] m.t = "sync-step-1" ->
            \* initSyncListeners (provider.ts:252-255)
            /\ c2s' = [c2s EXCEPT ![p] = Append(@, Msg("ack", ydoc[p] \ m.d, {}))]
            /\ synced' = [synced EXCEPT ![p] = TRUE]
            /\ s2c' = [s2c EXCEPT ![p] = Tail(@)]
            /\ UNCHANGED <<socket, status, observed, sendBuffer, ydoc, awareness, resyncInterval,
                           bc, pendingUpdates, updateTimer>>
       [] m.t \in {"ack", "sync-update"} ->
            \* the acknowledgment of sync-step-1 (provider.ts:312-314) and
            \* onSocketSyncUpdate (provider.ts:423-425): origin is this
            /\ applyUpdate(p, m.d)
            /\ s2c' = [s2c EXCEPT ![p] = Tail(@)]
            /\ UNCHANGED <<socket, status, observed, c2s, sendBuffer, synced, awareness,
                           resyncInterval, bc>>
       [] OTHER ->
            \* initAwarenessListeners (provider.ts:272-274); the 'update'
            \* event reaches awarenessUpdate, while registered, whatever its origin
            LET changed == AwChanged(awareness[p], m.a)
                aw == applyAwarenessUpdate(awareness[p], m.a, p)
                emits == changed # {} /\ ~Destroyed(p) IN
            /\ awareness' = [awareness EXCEPT ![p] = aw]
            /\ c2s' = [c2s EXCEPT ![p] =
                         IF emits THEN @ \o awarenessUpdate(aw, changed) ELSE @]
            /\ s2c' = [s2c EXCEPT ![p] = Tail(@)]
            /\ BcPublish(p, IF emits THEN awarenessUpdate(aw, changed) ELSE <<>>)
            /\ observed' = [observed EXCEPT
                  ![p].published = @ + (IF emits THEN BcPublished(p, 1) ELSE 0),
                  ![p].own = @ + (IF emits
                                  THEN BcOwn(p, bcconnected[p], awarenessUpdate(aw, changed))
                                  ELSE 0)]
            /\ UNCHANGED <<socket, status, sendBuffer, ydoc, synced, resyncInterval,
                           pendingUpdates, updateTimer>>
  /\ UNCHANGED <<cfgVars, srvVars, bcconnected, joins>>

\* onBroadcastChannelMessage (provider.ts:491-524): the provider's
\* subscription is given the next message of another tab.  sync-step-1 and
\* query-awareness are answered on the channel; an update is applied with the
\* provider as origin, so onUpdateDoc returns at once; an awareness update is
\* applied and its 'update' event reaches awarenessUpdate, while registered.
BcReceive(p) ==
  /\ bcconnected[p]
  /\ bc[p] # <<>>
  /\ LET m == Head(bc[p])
         rest == [bc EXCEPT ![p] = Tail(@)]
         changed == AwChanged(awareness[p], m.a)
         aw == applyAwarenessUpdate(awareness[p], m.a, p)
         emits == changed # {} /\ ~Destroyed(p)
         reply == CASE m.t = "sync-step-1" -> <<Msg("sync-step-2", ydoc[p] \ m.d, {})>>
                    [] m.t = "query-awareness" ->
                         <<Msg("awareness-update", {},
                               encodeAwarenessUpdate(awareness[p], StateKeys(awareness[p])))>>
                    [] m.t = "awareness-update" /\ emits -> awarenessUpdate(aw, changed)
                    [] OTHER -> <<>> IN
     IF ~BcAccepts(p, BroadcastChannelOrigin)
     THEN /\ bc' = rest
          /\ UNCHANGED <<ydoc, awareness, c2s, sendBuffer, observed, pendingUpdates,
                         updateTimer>>
     ELSE /\ bc' = BcDeliver(rest, p, reply)
          /\ IF m.t \in {"sync-step-2", "sync-update"} THEN applyUpdate(p, m.d)
             ELSE UNCHANGED <<ydoc, pendingUpdates, updateTimer>>
          /\ awareness' = [awareness EXCEPT ![p] =
                              IF m.t = "awareness-update" THEN aw ELSE @]
          /\ SocketEmit(p, IF m.t = "awareness-update" /\ emits
                           THEN awarenessUpdate(aw, changed) ELSE <<>>)
          /\ observed' = [observed EXCEPT ![p].published = @ + Len(reply),
                                          ![p].own = @ + BcOwn(p, TRUE, reply)]
  /\ UNCHANGED <<cfgVars, srvVars, s2c, socket, synced, status, bcconnected,
                 resyncInterval, joins>>

\* ------------------------------------------------------------------- Next
\* joining, leaving and the packets of a connection
Connections ==
  \/ \E p \in Peers : Connect(p)
  \/ \E p \in Peers : Middleware(p)
  \/ \E p \in Peers : InitDocumentGet(p)
  \/ \E p \in Peers : InitDocumentHas(p)
  \/ \E p \in Peers : InitDocumentSet(p)
  \/ \E p \in Peers : ConnectionAttach(p)
  \/ \E p \in Peers : ServerReceive(p)
  \/ \E p \in Peers : ClientReceive(p)
  \/ \E p \in Peers : Disconnect(p)
  \/ \E d \in DocIds : DisconnectAllSockets(d)

\* what runs only with LevelDB persistence
Persistence ==
  \/ \E p \in Peers : BindStateGetYDoc(p)
  \/ \E p \in Peers : BindStateApply(p)
  \/ \E d \in DocIds : DisconnectDestroy(d)

LocalEdits ==
  \/ \E p \in Peers : Edit(p)
  \/ \E p \in Peers : UpdateTimerFires(p)

LocalAwareness == \E p \in Peers : SetLocalState(p)

\* the other calls of the provider's API, connection loss and the resync timer
Lifecycle ==
  \/ \E p \in Peers : ConnectAgain(p)
  \/ \E p \in Peers : DisconnectIdle(p)
  \/ \E p \in Peers : Destroy(p)
  \/ \E p \in Peers : ConnectionLoss(p)
  \/ \E p \in Peers : Reconnect(p)
  \/ \E p \in Peers : ResyncTick(p)

\* the broadcast channel between the tabs
Channel == \E p \in Peers : BcReceive(p)

\* what a faulty peer does
Faults == \E p \in Peers : SendCorrupt(p)

Limits(ps, j, e, c) == [peers |-> ps, joins |-> j, edits |-> e, clock |-> c]
NoDebounce == [p \in Peers |-> Undefined]
NoAuthenticate == [p \in Peers |-> Undefined]

\* the room's lifecycle, with and without persistence; no edits
RegistryJoins == 3
Init == \E pers \in BOOLEAN :
          InitWith(pers, NoAuthenticate, NoDebounce, Limits(Peers, RegistryJoins, 0, 0))
Next == Connections \/ Persistence
Spec == Init /\ [][Next]_vars

\* document synchronization without persistence
SyncJoins == 2
SyncEdits == 1
InitSync == InitWith(FALSE, NoAuthenticate, NoDebounce, Limits(Peers, SyncJoins, SyncEdits, 0))
NextSync == Connections \/ LocalEdits
SpecSync == InitSync /\ [][NextSync]_vars

\* a persisted room that empties and is joined again
PersistJoins == 2
PersistEdits == 1
InitPersist == InitWith(TRUE, NoAuthenticate, NoDebounce, Limits(Peers, PersistJoins, PersistEdits, 0))
NextPersist == Connections \/ Persistence \/ LocalEdits
SpecPersist == InitPersist /\ [][NextPersist]_vars

\* awareness exchange without persistence
AwarenessJoins == 2
AwarenessClock == 1
InitAwareness == InitWith(FALSE, NoAuthenticate, NoDebounce, Limits(Peers, AwarenessJoins, 0, AwarenessClock))
NextAwareness == Connections \/ LocalAwareness
SpecAwareness == InitAwareness /\ [][NextAwareness]_vars

\* one provider, with and without a debounce window
ProviderJoins == 2
ProviderEdits == 3
DebounceMs == "100ms"
InitProvider ==
  \E deb \in {Undefined, DebounceMs} :
     InitWith(FALSE, NoAuthenticate, [p \in Peers |-> deb],
              Limits({CHOOSE p \in Peers : TRUE}, ProviderJoins, ProviderEdits, 0))
SpecProvider == InitProvider /\ [][NextSync]_vars

\* authenticate admits the first peer only
AuthJoins == 3
InitAuth == InitWith(FALSE, [p \in Peers |-> IF p = 1 THEN "true" ELSE "false"], NoDebounce, Limits(Peers, AuthJoins, 0, 0))
SpecAuth == InitAuth /\ [][Connections]_vars

\* ProviderConfiguration.resyncInterval: the default, zero, five seconds
ResyncIntervals == {-1, 0, 5000}

\* one provider through its whole life: every call of its API in every state,
\* connection loss, with and without broadcast channel and resync interval
LifecycleJoins == 2
LifecycleEdits == 1
LifecycleCalls == 2
InitLifecycle ==
  \E resync \in ResyncIntervals, noBc \in BOOLEAN :
     InitOptions(FALSE, NoAuthenticate, NoDebounce,
                 Limits({CHOOSE p \in Peers : TRUE}, LifecycleJoins, LifecycleEdits, 0),
                 [DefaultOptions EXCEPT !.resyncInterval = resync, !.disableBc = noBc,
                                        !.calls = LifecycleCalls])
NextLifecycle == Connections \/ LocalEdits \/ Lifecycle
SpecLifecycle == InitLifecycle /\ [][NextLifecycle]_vars

\* connect(), disconnect(), destroy() and reconnection of one provider that
\* makes no edits
ConnectJoins == 2
ConnectCalls == 1
InitConnect ==
  \E resync \in ResyncIntervals, noBc \in BOOLEAN :
     InitOptions(FALSE, NoAuthenticate, NoDebounce,
                 Limits({CHOOSE p \in Peers : TRUE}, ConnectJoins, 0, 0),
                 [DefaultOptions EXCEPT !.resyncInterval = resync, !.disableBc = noBc,
                                        !.calls = ConnectCalls])
NextConnect == Connections \/ Lifecycle
SpecConnect == InitConnect /\ [][NextConnect]_vars

\* listeners of YSocketIO's events that throw, with persistence
ListenersJoins == 2
InitListeners ==
  \E t \in SUBSET {"document-loaded", "all-document-connections-closed"} :
     InitOptions(TRUE, NoAuthenticate, NoDebounce, Limits(Peers, ListenersJoins, 0, 0),
                 [DefaultOptions EXCEPT !.throws = t])
SpecListeners == InitListeners /\ [][Next]_vars

\* Documents constructed with callbacks, which throw or not; one provider
DocumentJoins == 1
DocumentEdits == 1
DocumentClock == 1
InitDocument ==
  \E t \in {{}, {"onUpdate", "onChangeAwareness"}} :
     InitOptions(FALSE, NoAuthenticate, NoDebounce,
                 Limits({CHOOSE p \in Peers : TRUE}, DocumentJoins, DocumentEdits,
                        DocumentClock),
                 [DefaultOptions EXCEPT !.throws = t, !.construct = "direct"])
NextDocument == Connections \/ LocalEdits \/ LocalAwareness
SpecDocument == InitDocument /\ [][NextDocument]_vars

\* a persisted room whose LevelDB rejects the append of the first edit; one
\* provider
AppendJoins == 1
AppendEdits == 2
InitAppend ==
  InitOptions(TRUE, NoAuthenticate, NoDebounce,
              Limits({CHOOSE p \in Peers : TRUE}, AppendJoins, AppendEdits, 0),
              [DefaultOptions EXCEPT !.appendFails = {1}])
SpecAppend == InitAppend /\ [][NextPersist]_vars

\* a room one of whose peers sends an undecodable sync-update
CorruptJoins == 2
CorruptEdits == 1
CorruptPackets == 1
InitCorrupt ==
  InitOptions(FALSE, NoAuthenticate, NoDebounce,
              Limits(Peers, CorruptJoins, CorruptEdits, 0),
              [DefaultOptions EXCEPT !.corrupt = CorruptPackets])
NextCorrupt == Connections \/ LocalEdits \/ Faults
SpecCorrupt == InitCorrupt /\ [][NextCorrupt]_vars

\* two providers that were given awareness instances whose local state is set
DisconnectionJoins == 2
DisconnectionClock == 1
InitDisconnection ==
  InitOptions(FALSE, NoAuthenticate, NoDebounce,
              Limits({p \in Peers : p <= 2}, DisconnectionJoins, 0, 0),
              [DefaultOptions EXCEPT !.awarenessClock = DisconnectionClock])
\* both providers join and are served; disconnect() is called on one of them
NextDisconnection ==
  \/ \E p \in Peers : Connect(p)
  \/ \E p \in Peers : Middleware(p)
  \/ \E p \in Peers : InitDocumentGet(p)
  \/ \E p \in Peers : InitDocumentHas(p)
  \/ \E p \in Peers : InitDocumentSet(p)
  \/ \E p \in Peers : ConnectionAttach(p)
  \/ \E p \in Peers : ServerReceive(p)
  \/ \E p \in Peers : ClientReceive(p)
  \/ Disconnect(CHOOSE p \in Peers : TRUE)
  \/ \E d \in DocIds : DisconnectAllSockets(d)
SpecDisconnection == InitDisconnection /\ [][NextDisconnection]_vars

\* two providers, in two tabs of one browser, whose handshakes the server
\* rejects: they reach each other over the broadcast channel only
BcJoins == 2
BcEdits == 1
BcClock == 1
InitBc ==
  InitOptions(FALSE, [p \in Peers |-> "false"], NoDebounce,
              Limits({p \in Peers : p <= 2}, BcJoins, BcEdits, 0),
              [DefaultOptions EXCEPT !.disableBc = FALSE, !.awarenessClock = BcClock])
NextBc ==
  \/ \E p \in Peers : Connect(p)
  \/ \E p \in Peers : Middleware(p)
  \/ \E p \in Peers : ClientReceive(p)
  \/ LocalEdits
  \/ Channel
SpecBc == InitBc /\ [][NextBc]_vars

\* two providers, in two tabs of one browser, whose server cannot be reached:
\* their sockets stay connecting and the broadcast channel is all they have
FallbackEdits == 3
FallbackClock == 1
InitFallback ==
  InitOptions(FALSE, NoAuthenticate, NoDebounce,
              Limits({p \in Peers : p <= 2}, MaxDocs, FallbackEdits, 0),
              [DefaultOptions EXCEPT !.disableBc = FALSE, !.awarenessClock = FallbackClock])
NextFallback ==
  \/ \E p \in Peers : Connect(p)
  \/ LocalEdits
  \/ Channel
SpecFallback == InitFallback /\ [][NextFallback]_vars

\* two providers that are given each other's edits: both served by the
\* server, without broadcast channel, or both rejected by it, in two tabs of one
\* browser with the broadcast channel; one of them makes the edits, nobody
\* disconnects
RemoteJoins == 2
RemoteEdits == 1
InitRemote ==
  \E noBc \in BOOLEAN :
     InitOptions(FALSE, [p \in Peers |-> IF noBc THEN Undefined ELSE "false"], NoDebounce,
                 Limits({p \in Peers : p <= 2}, RemoteJoins, RemoteEdits, 0),
                 [DefaultOptions EXCEPT !.disableBc = noBc])
NextRemote ==
  \/ \E p \in Peers : Connect(p)
  \/ \E p \in Peers : Middleware(p)
  \/ \E p \in Peers : InitDocumentGet(p)
  \/ \E p \in Peers : InitDocumentHas(p)
  \/ \E p \in Peers : InitDocumentSet(p)
  \/ \E p \in Peers : ConnectionAttach(p)
  \/ \E p \in Peers : ServerReceive(p)
  \/ \E p \in Peers : ClientReceive(p)
  \/ Edit(CHOOSE p \in Peers : TRUE)
  \/ UpdateTimerFires(CHOOSE p \in Peers : TRUE)
  \/ Channel
SpecRemote == InitRemote /\ [][NextRemote]_vars

\* one provider that joins and stays, with and without a debounce window
BufferEdits == 3
InitBuffer ==
  \E deb \in {Undefined, DebounceMs} :
     InitWith(FALSE, NoAuthenticate, [p \in Peers |-> deb],
              Limits({CHOOSE p \in Peers : TRUE}, MaxDocs, BufferEdits, 0))
NextBuffer ==
  \/ \E p \in Peers : Connect(p)
  \/ \E p \in Peers : Middleware(p)
  \/ \E p \in Peers : InitDocumentGet(p)
  \/ \E p \in Peers : InitDocumentHas(p)
  \/ \E p \in Peers : InitDocumentSet(p)
  \/ \E p \in Peers : ConnectionAttach(p)
  \/ \E p \in Peers : ServerReceive(p)
  \/ \E p \in Peers : ClientReceive(p)
  \/ LocalEdits
SpecBuffer == InitBuffer /\ [][NextBuffer]_vars

\* authenticate admits the first peer and throws, or rejects its promise, for
\* the others; the middleware is run for every handshake that arrives
ThrowJoins == 3
InitThrow ==
  InitWith(FALSE, [p \in Peers |-> IF p = 1 THEN "true" ELSE "throws"], NoDebounce,
           Limits(Peers, ThrowJoins, 0, 0))
SpecThrow ==
  InitThrow /\ [][Connections]_vars /\ \A p \in Peers : WF_vars(Middleware(p))

\* ------------------------------------------------------------- properties
\* no handler is suspended at an await
HandlersIdle ==
  /\ \A p \in Peers : conn[p].pc \in {"idle", "done", "failed"}
  /\ \A d \in DocIds : closing[d].allSockets = 0 /\ closing[d].writeState = 0

\* every packet has been delivered and no join is under way
NothingInFlight ==
  \A p \in Peers : c2s[p] = <<>> /\ s2c[p] = <<>> /\ socket[p] # "connecting"

\* quiescence: nothing in flight, no handler suspended, no timer armed
Quiescent == NothingInFlight /\ HandlersIdle /\ \A p \in Peers : ~updateTimer[p]

\* C1: the handlers of the room's peers are all bound to one Document
\* instance: concurrent first joins construct and register exactly one.
C1_SingleDocument ==
  \A p, q \in Peers :
     (conn[p].doc # NoDoc /\ conn[q].doc # NoDoc) => conn[p].doc = conn[q].doc

\* C2: at quiescence every connected provider's replica equals the server's
\* document of the room (which then holds every edit a connected provider has).
C2_Convergence ==
  Quiescent =>
    \A p \in Peers :
       socket[p] = "connected" =>
          documents # NoDoc /\ ydoc[p] = docs[documents].content

\* C3: a provider whose join has completed and whose connection has nothing
\* left in flight holds every edit the server held when it joined.
C3_LateJoiner ==
  \A p \in Peers :
     (socket[p] = "connected" /\ conn[p].pc = "done" /\ c2s[p] = <<>> /\ s2c[p] = <<>>)
        => observed[p].serverHad \subseteq ydoc[p]

\* C4: with a debounce window, an edit made while the timer is armed has not
\* been transmitted, and no edit is transmitted twice: the window's edits go
\* out once, merged, when the timer fires.
C4_DebounceMerges ==
  \A p \in Peers :
     debounceTime[p] # Undefined =>
        /\ updateTimer[p] =>
              \A i \in DOMAIN observed[p].tx :
                 observed[p].tx[i] \cap mergeUpdates(pendingUpdates[p]) = {}
        /\ \A i, j \in DOMAIN observed[p].tx :
              i # j => observed[p].tx[i] \cap observed[p].tx[j] = {}

\* C5: without a debounce window the sync-updates a provider has emitted are
\* exactly its local deltas, one per edit, in order, none deferred or merged.
C5_ImmediatePerDelta ==
  \A p \in Peers : debounceTime[p] = Undefined => observed[p].tx = observed[p].local

\* C6: a peer whose handshake authenticate rejects is never connected: it is
\* not in the namespace, no 'connection' handler runs and no document is
\* looked up for it, the provider never reports 'connected', and every
\* attempt that has ended ended with 'connection-error'.
C6_RejectedNeverConnected ==
  \A p \in Peers :
     authenticate[p] = "false" =>
        /\ p \notin nsp
        /\ conn[p].pc \in {"idle", "middleware"} /\ conn[p].doc = NoDoc
        /\ status[p] # "connected" /\ observed[p].connected = 0
        /\ socket[p] # "connected"
        /\ socket[p] = "disconnected" => observed[p].connErr = observed[p].attempts

\* a rejected peer has been told so while the room serves an admitted one
C6_Witness ==
  \E p \in Peers :
     /\ authenticate[p] = "false" /\ observed[p].connErr > 0
     /\ \E q \in Peers : conn[q].attached

\* C7: with persistence, once the room's Document has been destroyed, a peer
\* whose handler has attached is served by a Document constructed since, not
\* destroyed, that holds every persisted update.
C7_ReloadedDocument ==
  (persistence /\ \E d \in DocIds : docs[d].destroyed) =>
     \A p \in nsp :
        conn[p].attached =>
           /\ ~docs[conn[p].doc].destroyed
           /\ ldb \subseteq docs[conn[p].doc].content

\* C8: once a provider's disconnection has been processed everywhere, neither
\* the server's document nor a connected provider holds an awareness state
\* for it.
C8_AwarenessRemoved ==
  (NothingInFlight /\ HandlersIdle) =>
    \A p \in Peers :
       (socket[p] = "disconnected" /\ p \notin nsp) =>
          /\ \A d \in DocIds : ~docs[d].aw[p].st
          /\ \A q \in Peers : socket[q] = "connected" => ~awareness[q][p].st

\* C9: when the room has emptied ('all-document-connections-closed') and the
\* server has nothing left to do for it, its Document is destroyed and out of
\* the registry and 'document-destroy' has been emitted.
C9_EmptyRoomDestroyed ==
  (emitted.closed > 0 /\ nsp = {} /\ HandlersIdle /\ NothingInFlight) =>
     /\ documents = NoDoc
     /\ emitted.destroy > 0
     /\ \A d \in DocIds : docs[d].made => docs[d].destroyed

\* C10: the server never closes a peer's socket.  It closes sockets only in
\* Document.destroy, at the end of a drain that began with the namespace
\* empty: the sockets closed are those of peers that joined during the drain.
C10_JoinAbortsDrain ==
  \A p \in Peers : \A i \in DOMAIN s2c[p] : s2c[p][i].t # "disconnect"

LastS2c(q) == s2c'[q][Len(s2c'[q])]

\* C12: when a Document with callbacks whose onUpdate / onChangeAwareness
\* throws applies an update from a peer, the callback has been called, the
\* update is in the Document and every socket of the room is sent the
\* sync-update / awareness-update of what changed.
C12_ThrowingCallback ==
  [][\A d \in DocIds :
       (docs[d].callbacks # Undefined /\ docs[d].onUpdateDoc
        /\ {"onUpdate", "onChangeAwareness"} \subseteq options.throws) =>
          /\ docs'[d].content # docs[d].content =>
                /\ emitted'.update = emitted.update + 1
                /\ \A q \in nsp :
                      socket[q] # "disconnected" =>
                         /\ Len(s2c'[q]) = Len(s2c[q]) + 1
                         /\ LastS2c(q) = Msg("sync-update", docs'[d].content \ docs[d].content, {})
          /\ (\E c \in Peers : docs'[d].aw[c] # docs[d].aw[c] /\ docs'[d].aw[c].st) =>
                /\ emitted'.awareness = emitted.awareness + 1
                /\ \A q \in nsp :
                      socket[q] # "disconnected" =>
                         /\ Len(s2c'[q]) = Len(s2c[q]) + 1
                         /\ LastS2c(q).t = "awareness-update"
                         /\ \A c \in Peers :
                               (docs'[d].aw[c] # docs[d].aw[c]) =>
                                  [id |-> c, clock |-> docs'[d].aw[c].clock,
                                   st |-> docs'[d].aw[c].st] \in LastS2c(q).a
    ]_vars

\* both callbacks threw, and the provider has received the broadcast of its
\* edit and of its awareness state
C12_Witness ==
  /\ {"onUpdate", "onChangeAwareness"} \subseteq options.throws
  /\ emitted.update > 0 /\ emitted.awareness > 0
  /\ \E d \in DocIds : docs[d].callbacks # Undefined /\ docs[d].content # {}
                         /\ \E c \in Peers : docs[d].aw[c].st
  /\ \E p \in Peers : \E i \in DOMAIN s2c[p] :
        s2c[p][i].t = "sync-update" /\ s2c[p][i].d # {}

\* C13: with listeners of 'document-loaded' and of
\* 'all-document-connections-closed' that throw, a connected peer whose
\* handler has ended has its listeners attached and has received the server's
\* sync-step-1, and, with persistence, a room that has emptied and is at rest
\* has had its Document destroyed.
C13_ThrowingListener ==
  /\ \A p \in Peers :
        (socket[p] = "connected" /\ p \in nsp /\ conn[p].pc \in {"done", "failed"}
         /\ s2c[p] = <<>>)
           => (conn[p].attached /\ synced[p])
  /\ (persistence /\ emitted.closed > 0 /\ nsp = {} /\ HandlersIdle /\ NothingInFlight)
        => \E d \in DocIds : docs[d].destroyed

\* C14: once a server Document holds an update received from a peer, the
\* 'document-update' event has been emitted.
C14_UpdateReported ==
  (\E d \in DocIds : docs[d].content # {}) => emitted.update > 0

\* C15: after destroy() neither the debounce timer nor a resync interval of
\* the provider is armed.
C15_NoTimerAfterDestroy ==
  \A p \in Peers : Destroyed(p) => (~updateTimer[p] /\ resyncInterval[p] = 0)

\* C16: a destroyed provider is never connected.
C16_DestroyTerminal ==
  \A p \in Peers : Destroyed(p) => socket[p] # "connected"

\* C17: when disconnect() was the last call on the provider, it has left the
\* broadcast channel and its transport is closed.
C17_DisconnectCloses ==
  \A p \in Peers :
     observed[p].call = "disconnect" => (~bcconnected[p] /\ socket[p] = "disconnected")

\* a call of connect() on provider p is this step
ConnectCalled(p) ==
  /\ observed'[p].call = "connect"
  /\ \/ observed'[p].attempts # observed[p].attempts
     \/ observed'[p].calls # observed[p].calls

\* C18: connect() on a connected provider changes nothing (status, synced,
\* transport, broadcast channel); in any other state it emits 'connecting',
\* has the transport opening, joins the broadcast channel unless disabled and
\* sets synced to false.
C18_Connect ==
  [][\A p \in Peers :
       ConnectCalled(p) =>
          IF socket[p] = "connected"
          THEN /\ status'[p] = status[p] /\ synced'[p] = synced[p]
               /\ socket'[p] = socket[p] /\ bcconnected'[p] = bcconnected[p]
               /\ observed'[p].published = observed[p].published
          ELSE /\ status'[p] = "connecting" /\ ~synced'[p]
               /\ socket'[p] = "connecting"
               /\ bcconnected'[p] = (bcconnected[p] \/ ~options.disableBc)]_vars

\* connect() has been called on a connected and synced provider, which still is
C18_Witness ==
  \E p \in Peers :
     /\ observed[p].call = "connect" /\ observed[p].calls > 0
     /\ socket[p] = "connected" /\ status[p] = "connected" /\ synced[p]
     /\ ~options.disableBc /\ bcconnected[p]

\* C19: a provider's status becomes 'connected' only from 'connecting', and
\* 'disconnected' only from 'connected'.
C19_StatusCycle ==
  [][\A p \in Peers :
       /\ (status'[p] = "connected" /\ status[p] # "connected") => status[p] = "connecting"
       /\ (status'[p] = "disconnected" /\ status[p] # "disconnected") => status[p] = "connected"
    ]_vars

\* C20: at quiescence the room's server document holds every edit a connected
\* provider made while it was not connected.
C20_OfflineEditsReachServer ==
  Quiescent =>
    \A p \in Peers :
       socket[p] = "connected" =>
          documents # NoDoc /\ observed[p].offline \subseteq docs[documents].content

\* C21: a provider whose synced flag is true holds every update the server
\* held when its connection was established (it has applied the reply to its
\* own sync-step-1).
C21_SyncedAfterRoundTrip ==
  \A p \in Peers : synced[p] => observed[p].serverHad \subseteq ydoc[p]

\* C22: with disableBc set the provider is never subscribed to the broadcast
\* channel and has published nothing on it.
C22_BcDisabled ==
  options.disableBc =>
     \A p \in Peers : ~bcconnected[p] /\ observed[p].published = 0

C24_CorruptDropped == emitted.uncaughtException = 0

\* C25: each emission of 'document-loaded' is one more, made in a step that
\* takes the room's registry entry from absent to the Document registered,
\* which with persistence has its persisted state loaded.
C25_LoadedOncePerActivation ==
  [][emitted'.loaded # emitted.loaded =>
       /\ emitted'.loaded = emitted.loaded + 1
       /\ documents = NoDoc /\ documents' # NoDoc
       /\ persistence => docs'[documents'].storeUpdate
    ]_vars

\* the sync-step-1 packets in a queue
SyncStep1s(q) == Cardinality({i \in DOMAIN q : q[i].t = "sync-step-1"})

\* C27: a sync-step-1 is emitted only on a connected socket, one at a time;
\* with a resync interval of 0 or less no interval is ever armed and a
\* sync-step-1 is emitted exactly in the steps in which the socket connects.
C27_ResyncTick ==
  [][\A p \in Peers :
       LET sent == SyncStep1s(c2s'[p]) > SyncStep1s(c2s[p])
           connects == socket[p] # "connected" /\ socket'[p] = "connected" IN
       /\ SyncStep1s(sendBuffer'[p]) = 0
       /\ sent => /\ socket'[p] = "connected"
                  /\ SyncStep1s(c2s'[p]) = SyncStep1s(c2s[p]) + 1
       /\ connects => sent
       /\ options.resyncInterval <= 0 =>
             /\ resyncInterval'[p] = 0
             /\ sent => connects
    ]_vars

\* with an interval configured, a tick has emitted a sync-step-1 after the
\* provider answered the server's
C27_Witness ==
  \E p \in Peers :
     /\ options.resyncInterval > 0 /\ resyncInterval[p] > 0
     /\ socket[p] = "connected"
     /\ \E i, j \in DOMAIN c2s[p] :
           i < j /\ c2s[p][i].t = "ack" /\ c2s[p][j].t = "sync-step-1"

\* C28: a provider has at most one resync interval armed.
C28_OneResyncTimer == \A p \in Peers : resyncInterval[p] <= 1

\* C29: with a debounce window configured, an onPending(false) is preceded by
\* at least one onPending(true) since the previous onPending(false).
C29_PendingTrueBeforeFalse ==
  \A p \in Peers :
     debounceTime[p] # Undefined =>
        LET calls == observed[p].onPending IN
        (calls # <<>> /\ ~calls[Len(calls)]) => (Len(calls) > 1 /\ calls[1])

\* the provider's transport disconnects in this step
TransportDisconnects(p) == socket[p] = "connected" /\ socket'[p] # "connected"

C30_NoOwnMessage ==
  [][\A p \in Peers :
       /\ observed'[p].own = 0
       /\ (/\ bc[p] # <<>> /\ bc'[p] = Tail(bc[p]) /\ bcconnected'[p]
           /\ Head(bc[p]).t \in {"sync-step-2", "sync-update"}) =>
             /\ observed'[p].published = observed[p].published
             /\ c2s'[p] = c2s[p] /\ sendBuffer'[p] = sendBuffer[p]
             /\ \A q \in Peers \ {p} : bc'[q] = bc[q]
    ]_vars

\* a provider holds an edit it did not make and could only be given over the
\* channel, published by a provider that is subscribed itself
C30_Witness ==
  \E p, q \in Peers :
     /\ p # q /\ bcconnected[p] /\ bcconnected[q]
     /\ observed[p].local # <<>> /\ observed[p].published > connectBcPublishes
     /\ observed[q].local = <<>> /\ ydoc[q] # {}
     /\ observed[q].connected = 0

\* the providers of the room's tabs are all on the broadcast channel, every
\* message published has been handled and no debounce timer is armed
ChannelQuiescent ==
  \A p \in limits.peers : bcconnected[p] /\ bc[p] = <<>> /\ ~updateTimer[p]

\* C31: once the providers have joined the broadcast channel and its messages
\* are delivered, each replica holds every edit made, those made before the
\* later provider joined and those made since.
C31_FallbackConverges ==
  ChannelQuiescent => \A p \in limits.peers : ydoc[p] = Made

\* both providers made an edit before the later one joined and one more was
\* made since; both replicas hold the three
C31_Witness ==
  /\ ChannelQuiescent
  /\ \A p \in limits.peers :
        /\ ydoc[p] = Made
        /\ \E i \in DOMAIN observed[p].local : observed[p].local[i] \cap observed[p].shared = {}
  /\ \E p \in limits.peers : observed[p].shared # {}

\* C32: when bindState completes for a Document, the Document holds what
\* LevelDB holds for the room and what it held before, LevelDB holds what the
\* Document held before, and the append hook is registered; whatever a bound
\* Document that is not destroyed integrates afterwards is in LevelDB.
C32_BindState ==
  [][/\ \A p \in Peers :
          (conn[p].pc = "storeUpdate" /\ conn'[p].pc = "set") =>
             LET d == conn[p].doc IN
             /\ ldb \subseteq docs'[d].content
             /\ docs[d].content \subseteq docs'[d].content
             /\ docs[d].content \subseteq ldb'
             /\ docs'[d].storeUpdate
     /\ \A d \in DocIds :
          (docs[d].storeUpdate /\ ~docs'[d].destroyed) =>
             (docs'[d].content \ docs[d].content) \subseteq ldb'
    ]_vars

\* the provider's document gains edits in this step that are not its own
RemoteApplied(p) ==
  ydoc'[p] # ydoc[p] /\ observed'[p].local = observed[p].local

\* C33: the step in which a provider applies an update from the server or
\* from the broadcast channel buffers nothing, arms no timer and transmits and
\* publishes nothing; what it has buffered and what its sync-update packets
\* carried are its own local deltas only.
C33_RemoteNotRetransmitted ==
  [][\A p \in Peers :
       /\ RemoteApplied(p) =>
             /\ pendingUpdates'[p] = pendingUpdates[p]
             /\ updateTimer'[p] = updateTimer[p]
             /\ c2s'[p] = c2s[p] /\ sendBuffer'[p] = sendBuffer[p]
             /\ observed'[p].tx = observed[p].tx
             /\ observed'[p].published = observed[p].published
             /\ \A q \in Peers \ {p} : bc'[q] = bc[q]
       /\ updateTimer'[p] =>
             mergeUpdates(pendingUpdates'[p]) \subseteq mergeUpdates(observed'[p].local)
       /\ \A i \in DOMAIN observed'[p].tx :
             observed'[p].tx[i] \subseteq mergeUpdates(observed'[p].local)
    ]_vars

\* a provider that made no edit holds one, given by the server or over the
\* channel, and has buffered and sent nothing
C33_Witness ==
  \E p \in Peers :
     /\ ydoc[p] # {} /\ observed[p].local = <<>>
     /\ pendingUpdates[p] = <<>> /\ ~updateTimer[p] /\ observed[p].tx = <<>>
     /\ options.disableBc => socket[p] = "connected"

\* C34: a Document that has been destroyed is not the room's registry entry,
\* 'document-destroy' has been emitted for it, and no peer whose handlers are
\* attached is served by it.
C34_DestroyUnregisters ==
  \A d \in DocIds :
     docs[d].destroyed =>
        /\ documents # d
        /\ emitted.destroy >= Cardinality({e \in DocIds : docs[e].destroyed})
        /\ \A p \in nsp : conn[p].attached => conn[p].doc # d

\* a call of disconnect() or destroy() on provider p is this step
DisconnectCalled(p) ==
  /\ observed'[p].call \in {"disconnect", "destroy"}
  /\ \/ observed'[p].call # observed[p].call
     \/ observed'[p].calls # observed[p].calls

\* C35: a provider whose synced flag is true has its transport connected; the
\* flag is false after connect() on a provider that is not connected, after a
\* disconnection of the transport and after disconnect() or destroy().
C35_SyncedImpliesConnected ==
  [][\A p \in Peers :
       /\ synced'[p] => socket'[p] = "connected"
       /\ (ConnectCalled(p) /\ socket[p] # "connected") => ~synced'[p]
       /\ TransportDisconnects(p) => ~synced'[p]
       /\ DisconnectCalled(p) => ~synced'[p]
    ]_vars

\* a provider that was synced has lost its transport and is not synced
C35_Witness ==
  \E p \in Peers :
     /\ socket[p] # "connected" /\ ~synced[p]
     /\ \E i \in DOMAIN observed[p].events : observed[p].events[i] = "synced"

\* the union of the updates in a sequence
RECURSIVE UnionOf(_)
UnionOf(us) == IF us = <<>> THEN {} ELSE Head(us) \cup UnionOf(Tail(us))

\* C36: the flushes of the debounce timer are pairwise disjoint and made of
\* the provider's local deltas, and whatever local delta no flush has carried
\* is in the pending buffer, with nothing else, under an armed timer.
C36_FlushedExactlyOnce ==
  \A p \in Peers :
     LET flushed == observed[p].flushed
         unflushed == UnionOf(observed[p].local) \ UnionOf(flushed) IN
     /\ \A i, j \in DOMAIN flushed : i # j => flushed[i] \cap flushed[j] = {}
     /\ \A i \in DOMAIN flushed :
           flushed[i] # {} /\ flushed[i] \subseteq UnionOf(observed[p].local)
     /\ unflushed # {} => updateTimer[p]
     /\ updateTimer[p] => mergeUpdates(pendingUpdates[p]) = unflushed

\* two flushes, the first of two deltas merged, and a third delta pending
C36_Witness ==
  \E p \in Peers :
     /\ Len(observed[p].flushed) = 2
     /\ Cardinality(observed[p].flushed[1]) = 2
     /\ Len(observed[p].local) = 3

\* the join of peer p has reached the middleware and is neither admitted nor
\* rejected
JoinPending(p) == conn[p].pc \in {"middleware", "pending"}

\* C37: every join that reaches the authentication middleware is eventually
\* admitted or rejected.
C37_JoinDecided == \A p \in Peers : JoinPending(p) ~> ~JoinPending(p)

\* C38: every socket of the room whose handlers are attached is served by the
\* Document the registry holds for the room, and that Document is not
\* destroyed.
C38_BoundToRegistered ==
  \A p \in nsp :
     conn[p].attached =>
        /\ documents # NoDoc /\ conn[p].doc = documents
        /\ ~docs[conn[p].doc].destroyed

\* the server takes a packet of p's connection, which stays open
ServerTakes(p) ==
  /\ p \in nsp /\ p \in nsp'
  /\ socket[p] = "connected" /\ socket'[p] = "connected"
  /\ c2s[p] # <<>> /\ c2s'[p] = Tail(c2s[p])

\* the awareness store aw holds what the entry e says, or something newer
AwStored(aw, e) == aw[e.id].meta /\ aw[e.id].clock >= e.clock

\* C39: a sync-step-1 or awareness-update that the server takes from a
\* connected provider is handled, whatever the 'connection' handler has done
\* by then: the sync-step-1 is acknowledged and the awareness states reach
\* the awareness store of the Document.
C39_ConnectMessagesHandled ==
  [][\A p \in Peers :
       ServerTakes(p) =>
          LET m == Head(c2s[p]) IN
          /\ m.t = "sync-step-1" =>
                /\ s2c'[p] # <<>>
                /\ s2c'[p] = Append(s2c[p], s2c'[p][Len(s2c'[p])])
                /\ s2c'[p][Len(s2c'[p])].t = "ack"
          /\ m.t = "awareness-update" =>
                /\ conn[p].doc # NoDoc
                /\ \A e \in m.a : e.clock > 0 => AwStored(docs'[conn[p].doc].aw, e)]_vars

\* the provider's socket handler applies an awareness-update of the server
RemoteAwarenessApplied(p) ==
  /\ s2c[p] # <<>> /\ s2c'[p] = Tail(s2c[p])
  /\ Head(s2c[p]).t = "awareness-update"
  /\ socket'[p] = socket[p]

\* C40: a provider that applies an awareness-update received from the server
\* transmits nothing because of it, neither to the server nor on the
\* broadcast channel.
C40_RemoteAwarenessNotRetransmitted ==
  [][\A p \in Peers :
       RemoteAwarenessApplied(p) =>
          /\ c2s'[p] = c2s[p]
          /\ sendBuffer'[p] = sendBuffer[p]
          /\ observed'[p].published = observed[p].published]_vars

====
